---- MODULE Spec2Model ----
(***************************************************************************)
(* The presentation loop of src/src/main.rs: the closure handed to         *)
(* event_loop.run (lines 214-312) with the state it captures, the          *)
(* framebuffer builder it calls, and the GPU backend it talks to.          *)
(*                                                                         *)
(* The closure runs on one thread, so its handlers never interleave with   *)
(* each other.  The RedrawEventsCleared handler is cut at its backend      *)
(* calls (recreate, acquire, record, take/execute, flush); pc is the       *)
(* position in the handler and is "idle" between handlers.  Only the GPU   *)
(* (GpuComplete) runs concurrently with the handler's steps.               *)
(***************************************************************************)
EXTENDS Integers, Sequences, FiniteSets, TLC

VARIABLES
    swapchain,                  \* main.rs:72   the current swapchain
    swapchain_framebuffers,     \* main.rs:208  one framebuffer per image
    dynamic_state,              \* main.rs:199  the viewport of DynamicState
    need_to_recreate_swapchain, \* main.rs:211  the stale flag
    previous_frame_end,         \* main.rs:212  Option<Box<dyn GpuFuture>>
    control_flow,               \* main.rs:214  winit's ControlFlow
    pc,                         \* position inside the closure
    panic,                      \* which expect/unwrap/panic! ended the program
    image_index,                \* main.rs:247  local of the redraw handler
    suboptimal,                 \* main.rs:247  local of the redraw handler
    command_buffer,             \* main.rs:285  local of the redraw handler
    future,                     \* main.rs:287  the chain being composed
    inner_size,                 \* surface.window().inner_size()
    gpu_pending,                \* submissions the GPU has not finished
    submitted,                  \* number of queue submissions so far
    signalled,                  \* staleness signals since the last rebuild
    iter,                       \* what the current/last redraw iteration did
    capabilities,               \* surface.capabilities(physical_device)
    selected,                   \* what create_swapchain asked Swapchain::new for
    healed                      \* the surface has settled: the backend accepts
                                \* the window's size and reports no more errors

vars == <<swapchain, swapchain_framebuffers, dynamic_state,
          need_to_recreate_swapchain, previous_frame_end, control_flow, pc,
          panic, image_index, suboptimal, command_buffer, future, inner_size,
          gpu_pending, submitted, signalled, iter, capabilities, selected,
          healed>>

(***************************************************************************)
(* Bounds of the model and constants of the program.                       *)
(***************************************************************************)
\* frame submissions explored
MaxFrames == 3
\* swapchain generations explored
MaxGen == 3
\* largest image count the surface may ask for (capabilities.min_image_count)
MaxImageCount == 2
MaxFormats == 3

WIDTH == 800
HEIGHT == 600

\* Queue submissions of startup: the compute test run, submitted and waited
\* for before the event loop starts (main.rs:170-171).
ComputeSubmissions == 1

\* Sizes the window system may give the window: the start size, another
\* ordinary size, a minimised window and one larger than the device allows.
WindowSizes == {<<WIDTH, HEIGHT>>, <<640, 480>>, <<0, 0>>, <<8192, 8192>>}

\* The extents the device accepts for this surface (min/max image extent).
MinImageExtent == <<1, 1>>
MaxImageExtent == <<4096, 4096>>

InRange(dimensions) ==
    /\ dimensions[1] >= MinImageExtent[1] /\ dimensions[1] <= MaxImageExtent[1]
    /\ dimensions[2] >= MinImageExtent[2] /\ dimensions[2] <= MaxImageExtent[2]

(***************************************************************************)
(* Option<Box<dyn GpuFuture>>: None, Some(sync::now(device)), or           *)
(* Some(the fence future of submission id).                                *)
(***************************************************************************)
None == [tag |-> "None", id |-> 0]
Now == [tag |-> "Now", id |-> 0]
FrameFuture(id) == [tag |-> "Frame", id |-> id]

\* Has the GPU work a token stands for finished?  sync::now is finished
\* from the start; a fence future is finished once its submission is.
Completed(token) ==
    \/ token.tag = "Now"
    \/ token.tag = "Frame" /\ \A p \in gpu_pending : p.id # token.id

NoImage == 0 - 1
NoCommandBuffer == [framebuffer |-> [gen |-> 0, index |-> NoImage], viewport |-> <<0, 0>>]
NoFuture ==
    [previous |-> None, image_index |-> NoImage, swapchain |-> 0, chain |-> <<>>]

(***************************************************************************)
(* Swapchain::new / recreate_with_dimensions hand back the swapchain and   *)
(* its images; images are told apart by generation and index.              *)
(***************************************************************************)
SwapchainImages(gen, count, dimensions) ==
    [i \in 1..count |-> [gen |-> gen, index |-> i - 1, dimensions |-> dimensions]]

NewSwapchain(gen, count, dimensions) ==
    [gen |-> gen, num_images |-> count, dimensions |-> dimensions]

\* Faulty variant of FramebufferSet: the last image gets no framebuffer.
FramebufferSet_DropLast(swapchain_images) ==
    [i \in 1..(Len(swapchain_images) - 1) |->
        [gen |-> swapchain_images[i].gen, index |-> swapchain_images[i].index]]

\* create_framebuffers: one framebuffer per image, in the images' order
FramebufferSet(swapchain_images) ==
    [i \in 1..Len(swapchain_images) |->
        [gen |-> swapchain_images[i].gen, index |-> swapchain_images[i].index]]

\* `n as f32` for a u32: exact up to 2^24, beyond that rounded to the
\* nearest value with a 24-bit significand (ties to even).
AsF32(n) ==
    IF n < 16777216 THEN n
    ELSE LET step == CHOOSE k \in {2, 4, 8, 16, 32, 64, 128, 256} :
                        /\ n \div k < 16777216
                        /\ \A j \in {2, 4, 8, 16, 32, 64, 128, 256} :
                              n \div j < 16777216 => k <= j
             low == (n \div step) * step
             rest == n - low
         IN  IF 2 * rest < step THEN low
             ELSE IF 2 * rest > step THEN low + step
             ELSE IF (n \div step) % 2 = 0 THEN low ELSE low + step

\* Faulty variant of ViewportOf: the viewport keeps the startup size.
ViewportOf_Startup(swapchain_images) == <<AsF32(WIDTH), AsF32(HEIGHT)>>

\* create_framebuffers: the viewport it writes into dynamic_state
ViewportOf(swapchain_images) ==
    <<AsF32(swapchain_images[1].dimensions[1]),
      AsF32(swapchain_images[1].dimensions[2])>>

(***************************************************************************)
(* Swapchain creation: what the surface reports and what the program asks  *)
(* for.  A surface format is a pair <<format, color space>>; the present    *)
(* modes are the flags of SupportedPresentModes; the maximum image count   *)
(* is an Option, None meaning that the surface sets no upper limit.         *)
(***************************************************************************)
PreferredFormat == <<"B8G8R8A8Srgb", "SrgbNonLinear">>

SurfaceFormats ==
    {PreferredFormat,
     <<"B8G8R8A8Unorm", "SrgbNonLinear">>,
     <<"B8G8R8A8Srgb", "ExtendedSrgbLinear">>}

FormatLists ==
    UNION {[1..n -> SurfaceFormats] : n \in 0..MaxFormats}

PresentModeSets == [mailbox : BOOLEAN, immediate : BOOLEAN, fifo : BOOLEAN]

NoMax == [some |-> FALSE, value |-> 0]

SomeMax(n) == [some |-> TRUE, value |-> n]

Capabilities ==
    {[supported_formats |-> formats, present_modes |-> modes,
      min_image_count |-> min, max_image_count |-> max] :
        formats \in FormatLists, modes \in PresentModeSets,
        min \in 1..MaxImageCount,
        max \in {NoMax} \cup {SomeMax(n) : n \in 1..(MaxImageCount + 1)}}

\* The surfaces a Vulkan implementation may report: the maximum, when there
\* is one, is not below the minimum.
ValidCapabilities ==
    {c \in Capabilities :
        c.max_image_count.some => c.max_image_count.value >= c.min_image_count}

NoFormat == <<"none", "none">>

\* formats.iter().find(..): the position of the first entry that is the
\* preferred pair, 0 when there is none.
FindPreferred(formats) ==
    LET hits == {i \in 1..Len(formats) :
                    /\ formats[i][1] = "B8G8R8A8Srgb"
                    /\ formats[i][2] = "SrgbNonLinear"}
    IN  IF hits = {} THEN 0
        ELSE CHOOSE i \in hits : \A j \in hits : i <= j

select_swap_surface_format_First(formats) ==
    IF Len(formats) > 0 THEN formats[1] ELSE NoFormat

\* NoFormat stands for the panic "No surface formats found!".
select_swap_surface_format(formats) ==
    IF FindPreferred(formats) # 0 THEN formats[FindPreferred(formats)]
    ELSE IF Len(formats) > 0 THEN formats[1]
    ELSE NoFormat

select_swap_present_mode_FifoFirst(available_modes) ==
    IF available_modes.fifo THEN "Fifo"
    ELSE IF available_modes.immediate THEN "Immediate"
    ELSE "Mailbox"

select_swap_present_mode(available_modes) ==
    IF available_modes.mailbox THEN "Mailbox"
    ELSE IF available_modes.immediate THEN "Immediate"
    ELSE "Fifo"

\* main.rs hands the surface's minimum to Swapchain::new as it is.
ImageCount(caps) == caps.min_image_count

\* app.rs asks for one more than the minimum, clamped to the maximum, which
\* it expects to exist.
AppImageCount(caps) ==
    IF caps.min_image_count + 1 > caps.max_image_count.value
    THEN caps.max_image_count.value
    ELSE caps.min_image_count + 1

\* Queues are told apart by the id of their queue family.
QueueFamilies == {0, 1}

NoSharing == [mode |-> "none", families |-> <<>>]

\* A single &Arc<Queue> converted into a SharingMode: exclusive to the
\* queue's family.
SharingOfQueue(queue) == [mode |-> "Exclusive", families |-> <<queue>>]

\* A slice of queues converted into a SharingMode: concurrent across the
\* families of the queues of the slice, as listed.
SharingOfQueues(queues) == [mode |-> "Concurrent", families |-> queues]

NotSelected ==
    [by |-> "none", surface_format |-> NoFormat, present_mode |-> "none",
     image_count |-> 0, queues |-> <<>>, sharing_mode |-> NoSharing,
     panic |-> "none"]

\* The arguments create_swapchain of main.rs passes to Swapchain::new.
Selection(caps, queue) ==
    IF select_swap_surface_format(caps.supported_formats) = NoFormat
    THEN [NotSelected EXCEPT !.by = "main",
                             !.queues = <<queue>>,
                             !.panic = "No surface formats found!"]
    ELSE [by |-> "main",
          surface_format |-> select_swap_surface_format(caps.supported_formats),
          present_mode |-> select_swap_present_mode(caps.present_modes),
          image_count |-> ImageCount(caps),
          queues |-> <<queue>>,
          sharing_mode |-> SharingOfQueue(queue),
          panic |-> "none"]

\* The arguments App::create_swapchain of app.rs passes to Swapchain::new.
AppSelection(caps, graphics_queue, present_queue) ==
    IF select_swap_surface_format(caps.supported_formats) = NoFormat
    THEN [NotSelected EXCEPT !.by = "app",
                             !.queues = <<graphics_queue, present_queue>>,
                             !.panic = "No surface formats found!"]
    ELSE IF ~caps.max_image_count.some
    THEN [by |-> "app",
          surface_format |-> select_swap_surface_format(caps.supported_formats),
          present_mode |-> select_swap_present_mode(caps.present_modes),
          image_count |-> 0,
          queues |-> <<graphics_queue, present_queue>>,
          sharing_mode |-> NoSharing,
          panic |-> "Failed to get max image count!"]
    ELSE [by |-> "app",
          surface_format |-> select_swap_surface_format(caps.supported_formats),
          present_mode |-> select_swap_present_mode(caps.present_modes),
          image_count |-> AppImageCount(caps),
          queues |-> <<graphics_queue, present_queue>>,
          sharing_mode |-> SharingOfQueues(<<graphics_queue, present_queue>>),
          panic |-> "none"]

\* The surface the presentation loop is explored on: one preferred format,
\* FIFO only, a minimum of one image and no upper limit.  The swapchain has
\* at least the images asked for; the backend may create more, so every
\* image count up to MaxImageCount starts the loop.
LoopCapabilities ==
    {c \in ValidCapabilities :
        /\ c.supported_formats = <<PreferredFormat>>
        /\ c.present_modes = [mailbox |-> FALSE, immediate |-> FALSE, fifo |-> TRUE]
        /\ c.min_image_count = 1
        /\ c.max_image_count = NoMax}

\* The record of one redraw iteration: the token and the swapchain
\* generation it started with, and what the backend answered at each step
\* ("none": the step was not reached).  flush = "Ok" is a presented frame.
IterStart ==
    [token0 |-> previous_frame_end, swapchain0 |-> swapchain,
     framebuffers0 |-> swapchain_framebuffers, stale0 |-> need_to_recreate_swapchain,
     size0 |-> inner_size, submitted0 |-> submitted,
     recreate |-> "none", acquire |-> "none", suboptimal |-> FALSE,
     flush |-> "none"]

Init ==
    /\ capabilities \in LoopCapabilities
    /\ selected = Selection(capabilities, 0)
    /\ healed = FALSE
    /\ \E count \in selected.image_count..MaxImageCount :
          /\ swapchain = NewSwapchain(1, count, <<WIDTH, HEIGHT>>)
          /\ swapchain_framebuffers =
                FramebufferSet(SwapchainImages(1, count, <<WIDTH, HEIGHT>>))
          /\ dynamic_state = ViewportOf(SwapchainImages(1, count, <<WIDTH, HEIGHT>>))
    /\ need_to_recreate_swapchain = FALSE
    /\ previous_frame_end = Now
    /\ control_flow = "Poll"
    /\ pc = "idle"
    /\ panic = "none"
    /\ image_index = NoImage
    /\ suboptimal = FALSE
    /\ command_buffer = NoCommandBuffer
    /\ future = NoFuture
    /\ inner_size = <<WIDTH, HEIGHT>>
    /\ gpu_pending = {}
    /\ submitted = ComputeSubmissions
    /\ signalled = {}
    /\ iter = [token0 |-> Now, swapchain0 |-> swapchain,
               framebuffers0 |-> swapchain_framebuffers, stale0 |-> FALSE,
               size0 |-> <<WIDTH, HEIGHT>>, submitted0 |-> ComputeSubmissions,
               recreate |-> "none", acquire |-> "none", suboptimal |-> FALSE,
               flush |-> "none"]

\* Faulty variant of Running: events are handled while a redraw handler is
\* still running.
Running_AnyStep == pc # "panicked"

\* The closure handles one event at a time: an event is handled when no
\* handler is running.  Nothing in the closure reads control_flow, so the
\* events winit still delivers after Exit are handled like any other.
Running == pc = "idle"

\* Event::WindowEvent { event: WindowEvent::CloseRequested }
CloseRequested ==
    /\ Running
    /\ control_flow' = "Exit"
    /\ UNCHANGED <<swapchain, swapchain_framebuffers, dynamic_state,
                   need_to_recreate_swapchain, previous_frame_end, pc, panic,
                   image_index, suboptimal, command_buffer, future, inner_size,
                   gpu_pending, submitted, signalled, iter>>
    /\ UNCHANGED <<capabilities, selected, healed>>

\* Faulty variant of StaleAfterResized: the resize handler leaves the flag.
StaleAfterResized_Kept(stale) == stale

\* Event::WindowEvent { event: WindowEvent::Resized(_) }: the new size is
\* not read from the event; the window reports it through inner_size().
StaleAfterResized(stale) == TRUE

Resized(size) ==
    /\ Running
    /\ inner_size' = size
    /\ need_to_recreate_swapchain' = StaleAfterResized(need_to_recreate_swapchain)
    /\ signalled' = signalled \cup {"Resized"}
    /\ UNCHANGED <<swapchain, swapchain_framebuffers, dynamic_state,
                   previous_frame_end, control_flow, pc, panic, image_index,
                   suboptimal, command_buffer, future, gpu_pending, submitted,
                   iter>>
    /\ UNCHANGED <<capabilities, selected, healed>>

\* The program ends in a panic: nothing of the closure runs afterwards.
Panic(why) ==
    /\ pc' = "panicked"
    /\ panic' = why

\* Faulty variant of StepAfterReclaim: the handler goes straight to acquire.
StepAfterReclaim_NoRebuild(stale) == "acquire"

\* if need_to_recreate_swapchain { ... } decides where the handler goes
\* after the reclaim step.
StepAfterReclaim(stale) == IF stale THEN "recreate" ELSE "acquire"

\* Event::RedrawEventsCleared, up to the first backend call:
\* previous_frame_end.as_mut().unwrap().cleanup_finished() frees what the
\* finished work held and waits for nothing.
RedrawEventsCleared ==
    /\ Running
    /\ submitted < ComputeSubmissions + MaxFrames
    /\ need_to_recreate_swapchain => swapchain.gen < MaxGen
    /\ iter' = IterStart
    /\ IF previous_frame_end = None
         THEN Panic("unwrap")
         ELSE /\ pc' = StepAfterReclaim(need_to_recreate_swapchain)
              /\ UNCHANGED panic
    /\ UNCHANGED <<swapchain, swapchain_framebuffers, dynamic_state,
                   need_to_recreate_swapchain, previous_frame_end, control_flow,
                   image_index, suboptimal, command_buffer, future, inner_size,
                   gpu_pending, submitted, signalled>>
    /\ UNCHANGED <<capabilities, selected, healed>>

\* Faulty variant of Dimensions: the rebuild reuses the old extent.
Dimensions_Old == swapchain.dimensions

\* let dimensions: [u32; 2] = surface.window().inner_size().into();
Dimensions == inner_size

\* What swapchain.recreate_with_dimensions(dimensions) may answer: the
\* extent is refused when it is outside the device's limits, and a fatal
\* error can come at any time: "DeviceLost" stands for device loss and
\* out of memory, "Error" for every other error.
RecreateResults(dimensions) ==
    (IF InRange(dimensions) THEN {"Ok"} ELSE {"UnsupportedDimensions"})
        \cup {"Error", "DeviceLost"}

\* Faulty variant of StaleAfterRecreate: the flag is cleared whatever the
\* rebuild answered.
StaleAfterRecreate_Cleared(result, stale) == FALSE

\* Faulty variant of StaleAfterRecreate: a successful rebuild leaves the
\* flag as it was.
StaleAfterRecreate_Kept(result, stale) == stale

\* need_to_recreate_swapchain after the match on the rebuild's result
StaleAfterRecreate(result, stale) == IF result = "Ok" THEN FALSE ELSE stale

\* What create_framebuffers can meet: every framebuffer built, or the panic
\* of .add(image).expect("Failed to add image!") or of
\* .build().expect("Failed to build").
FramebufferResults == {"Ok", "framebuffer_add", "framebuffer_build"}

\* The rebuild step of the redraw handler (main.rs:234-245).
\* built is what create_framebuffers met: "Ok", or the expect that failed
\* ("framebuffer_add" at 507, "framebuffer_build" at 508).  It writes the
\* viewport (502) before it builds the first framebuffer, and it runs after
\* the swapchain was replaced (242) and before the flag is cleared (244).
RecreateSwapchain(result, built) ==
    /\ pc = "recreate"
    /\ result \in RecreateResults(Dimensions)
    /\ built \in FramebufferResults
    /\ result # "Ok" => built = "Ok"
    /\ iter' = [iter EXCEPT !.recreate = IF built = "Ok" THEN result ELSE built]
    /\ signalled' = IF result = "Ok" /\ built = "Ok" THEN {} ELSE signalled
    /\ need_to_recreate_swapchain' =
          IF built = "Ok"
            THEN StaleAfterRecreate(result, need_to_recreate_swapchain)
            ELSE need_to_recreate_swapchain
    /\ CASE result = "Ok" /\ built = "Ok" ->
              LET new_images ==
                      SwapchainImages(swapchain.gen + 1, swapchain.num_images, Dimensions)
              IN  /\ swapchain' =
                        NewSwapchain(swapchain.gen + 1, swapchain.num_images, Dimensions)
                  /\ swapchain_framebuffers' = FramebufferSet(new_images)
                  /\ dynamic_state' = ViewportOf(new_images)
                  /\ pc' = "acquire"
                  /\ UNCHANGED panic
         [] result = "Ok" /\ built # "Ok" ->
              LET new_images ==
                      SwapchainImages(swapchain.gen + 1, swapchain.num_images, Dimensions)
              IN  /\ swapchain' =
                        NewSwapchain(swapchain.gen + 1, swapchain.num_images, Dimensions)
                  /\ dynamic_state' = ViewportOf(new_images)
                  /\ Panic(built)
                  /\ UNCHANGED swapchain_framebuffers
         [] result = "UnsupportedDimensions" ->
              /\ pc' = "idle"
              /\ UNCHANGED <<swapchain, swapchain_framebuffers, dynamic_state, panic>>
         [] OTHER ->
              /\ Panic("recreate")
              /\ UNCHANGED <<swapchain, swapchain_framebuffers, dynamic_state>>
    /\ UNCHANGED <<previous_frame_end, control_flow, image_index, suboptimal,
                   command_buffer, future, inner_size, gpu_pending, submitted>>
    /\ UNCHANGED <<capabilities, selected, healed>>

\* The images the presentation engine can hand out: those of the current
\* swapchain no unfinished submission still renders to.
AvailableImages ==
    {i \in 0..(swapchain.num_images - 1) :
        \A p \in gpu_pending : ~(p.gen = swapchain.gen /\ p.image_index = i)}

\* Faulty variant of StaleAfterAcquire: a suboptimal image is ignored.
StaleAfterAcquire_IgnoreSuboptimal(result, is_suboptimal, stale) ==
    IF result = "OutOfDate" THEN TRUE ELSE stale

\* Faulty variant of StaleAfterAcquire: every acquire marks staleness.
StaleAfterAcquire_Always(result, is_suboptimal, stale) == TRUE

\* need_to_recreate_swapchain after the match on the acquire's result and
\* the `if suboptimal` that follows it
StaleAfterAcquire(result, is_suboptimal, stale) ==
    IF result = "OutOfDate" \/ (result = "Ok" /\ is_suboptimal) THEN TRUE ELSE stale

\* Faulty variant of StepAfterAcquire: OutOfDate does not return.
StepAfterAcquire_Continue(result) ==
    CASE result = "Ok" -> "record"
      [] result = "OutOfDate" -> "record"
      [] OTHER -> "panicked"

\* where the handler goes after the match on the acquire's result
StepAfterAcquire(result) ==
    CASE result = "Ok" -> "record"
      [] result = "OutOfDate" -> "idle"
      [] OTHER -> "panicked"

\* acquire_next_image(swapchain.clone(), None) with the match on its
\* result and the suboptimal test (main.rs:247-260).  With no timeout the
\* call waits until an image is available.
AcquireNextImage(result, index, is_suboptimal) ==
    /\ pc = "acquire"
    /\ result = "Ok" => index \in AvailableImages
    /\ result # "Ok" => index = NoImage /\ is_suboptimal = FALSE
    /\ iter' = [iter EXCEPT !.acquire = result, !.suboptimal = is_suboptimal]
    /\ signalled' = signalled
          \cup (IF result = "OutOfDate" THEN {"AcquireOutOfDate"} ELSE {})
          \cup (IF result = "Ok" /\ is_suboptimal THEN {"Suboptimal"} ELSE {})
    /\ need_to_recreate_swapchain' =
          StaleAfterAcquire(result, is_suboptimal, need_to_recreate_swapchain)
    /\ pc' = StepAfterAcquire(result)
    /\ panic' = IF StepAfterAcquire(result) = "panicked" THEN "acquire" ELSE panic
    /\ IF result = "Ok"
         THEN image_index' = index /\ suboptimal' = is_suboptimal
         ELSE UNCHANGED <<image_index, suboptimal>>
    /\ UNCHANGED <<swapchain, swapchain_framebuffers, dynamic_state,
                   previous_frame_end, control_flow, command_buffer, future,
                   inner_size, gpu_pending, submitted>>
    /\ UNCHANGED <<capabilities, selected, healed>>

\* Record (main.rs:262-285): begin_render_pass on
\* swapchain_framebuffers[image_index], draw with &dynamic_state, build.
\* Indexing a Vec out of bounds panics, and so does each expect: on the
\* builder (266), begin_render_pass (273), draw (281), end_render_pass (283)
\* and build (285).  The builder is made before the framebuffer is indexed.
RecordResults ==
    {"Ok", "builder", "begin_render_pass", "draw", "end_render_pass", "build"}

Record(result) ==
    /\ pc = "record"
    /\ result \in RecordResults
    /\ IF result = "builder"
         THEN /\ Panic("builder")
              /\ UNCHANGED command_buffer
         ELSE IF image_index + 1 \notin DOMAIN swapchain_framebuffers
         THEN /\ Panic("index")
              /\ UNCHANGED command_buffer
         ELSE IF result # "Ok"
         THEN /\ Panic(result)
              /\ UNCHANGED command_buffer
         ELSE /\ command_buffer' =
                    [framebuffer |-> swapchain_framebuffers[image_index + 1],
                     viewport |-> dynamic_state]
              /\ pc' = "take"
              /\ UNCHANGED panic
    /\ UNCHANGED <<swapchain, swapchain_framebuffers, dynamic_state,
                   need_to_recreate_swapchain, previous_frame_end, control_flow,
                   image_index, suboptimal, future, inner_size, gpu_pending,
                   submitted, signalled, iter>>
    /\ UNCHANGED <<capabilities, selected, healed>>

\* Faulty variant of ComposedFuture: the present request names the first
\* image whatever was acquired.
ComposedFuture_FirstImage(previous, sc, index) ==
    [previous |-> previous, image_index |-> 0, swapchain |-> sc.gen,
     chain |-> <<"join", "execute", "present">>]

\* Faulty variant of ComposedFuture: the present request is appended before
\* the execution of the command buffer.
ComposedFuture_PresentFirst(previous, sc, index) ==
    [previous |-> previous, image_index |-> index, swapchain |-> sc.gen,
     chain |-> <<"join", "present", "execute">>]

\* The chain the handler composes: the taken token joined with the acquire,
\* the execution of the command buffer, and the present request for
\* (swapchain, image_index); chain lists the operations in the order the
\* combinators appended them, each one waiting for the one before it.
ComposedFuture(previous, sc, index) ==
    [previous |-> previous, image_index |-> index, swapchain |-> sc.gen,
     chain |-> <<"join", "execute", "present">>]

\* previous_frame_end.take().expect("Failed to take!").join(acquire_future)
\*     .then_execute(queue, command_buffer).expect("Failed to execute!")
\*     .then_swapchain_present(queue, swapchain, image_index)
\* builds the chain; nothing reaches the GPU before the flush.
TakeAndCompose(execute_ok) ==
    /\ pc = "take"
    /\ previous_frame_end' = None
    /\ IF previous_frame_end = None
         THEN /\ Panic("take")
              /\ UNCHANGED future
         ELSE IF ~execute_ok
         THEN /\ Panic("execute")
              /\ UNCHANGED future
         ELSE /\ future' = ComposedFuture(previous_frame_end, swapchain, image_index)
              /\ pc' = "flush"
              /\ UNCHANGED panic
    /\ UNCHANGED <<swapchain, swapchain_framebuffers, dynamic_state,
                   need_to_recreate_swapchain, control_flow, image_index,
                   suboptimal, command_buffer, inner_size, gpu_pending,
                   submitted, signalled, iter>>
    /\ UNCHANGED <<capabilities, selected, healed>>

\* Faulty variant of TokenAfterFlush: a failed flush stores no token.
TokenAfterFlush_Dropped(result, id) ==
    IF result = "Ok" THEN FrameFuture(id) ELSE None

\* previous_frame_end after the match on the flush's result
TokenAfterFlush(result, id) ==
    IF result = "Ok" THEN FrameFuture(id) ELSE Now

\* Faulty variant of StaleAfterFlush: OutOfDate at flush is not marked.
StaleAfterFlush_Unmarked(result, stale) == stale

\* Faulty variant of StaleAfterFlush: a flush that succeeds clears the flag.
StaleAfterFlush_ClearedOnOk(result, stale) ==
    IF result = "OutOfDate" THEN TRUE ELSE IF result = "Ok" THEN FALSE ELSE stale

\* Faulty variant of StaleAfterFlush: every flush marks staleness.
StaleAfterFlush_Always(result, stale) == TRUE

\* need_to_recreate_swapchain after the match on the flush's result
StaleAfterFlush(result, stale) == IF result = "OutOfDate" THEN TRUE ELSE stale

\* Faulty variant of StepAfterFlush: a flush error other than OutOfDate is
\* treated as fatal.
StepAfterFlush_Fatal(result) == IF result = "Error" THEN "panicked" ELSE "idle"

\* where the handler goes after the match on the flush's result
StepAfterFlush(result) == "idle"

\* What then_signal_fence_and_flush flushes: the composed chain with the
\* fence signal appended.
QueuedChain(chain) == Append(chain, "signal_fence")

\* .then_signal_fence_and_flush() and the match on its result
\* (main.rs:294-308).  The flush submits the command buffer, then queues
\* the present, then the fence: a failed flush may or may not have handed
\* the command buffer to the queue; the present of a failed flush is not
\* accepted.
FlushAndStore(result, queued) ==
    /\ pc = "flush"
    /\ result = "Ok" => queued
    /\ iter' = [iter EXCEPT !.flush = result]
    /\ signalled' = signalled
          \cup (IF result = "OutOfDate" THEN {"FlushOutOfDate"} ELSE {})
    /\ submitted' = IF queued THEN submitted + 1 ELSE submitted
    /\ gpu_pending' =
          IF queued
            THEN gpu_pending \cup
                    {[id |-> submitted + 1, gen |-> future.swapchain,
                      image_index |-> future.image_index,
                      chain |-> QueuedChain(future.chain), done |-> 0]}
            ELSE gpu_pending
    /\ previous_frame_end' = TokenAfterFlush(result, submitted + 1)
    /\ need_to_recreate_swapchain' = StaleAfterFlush(result, need_to_recreate_swapchain)
    /\ pc' = StepAfterFlush(result)
    /\ panic' = IF StepAfterFlush(result) = "panicked" THEN "flush" ELSE panic
    /\ future' = NoFuture
    /\ image_index' = NoImage
    /\ suboptimal' = FALSE
    /\ command_buffer' = NoCommandBuffer
    /\ UNCHANGED <<swapchain, swapchain_framebuffers, dynamic_state, control_flow,
                   inner_size>>
    /\ UNCHANGED <<capabilities, selected, healed>>

\* The GPU finishes the oldest submission of the queue.
GpuComplete ==
    /\ gpu_pending # {}
    /\ gpu_pending' =
          {p \in gpu_pending : \E q \in gpu_pending : q.id < p.id}
    /\ UNCHANGED <<swapchain, swapchain_framebuffers, dynamic_state,
                   need_to_recreate_swapchain, previous_frame_end, control_flow,
                   pc, panic, image_index, suboptimal, command_buffer, future,
                   inner_size, submitted, signalled, iter>>
    /\ UNCHANGED <<capabilities, selected, healed>>

\* The GPU completes the next operation of the oldest submission's chain;
\* completing the last one (the fence signal) finishes the submission.
GpuStep ==
    /\ gpu_pending # {}
    /\ LET p == CHOOSE q \in gpu_pending : \A r \in gpu_pending : q.id <= r.id
       IN  gpu_pending' =
              IF p.done + 1 >= Len(p.chain)
                THEN gpu_pending \ {p}
                ELSE (gpu_pending \ {p}) \cup {[p EXCEPT !.done = p.done + 1]}
    /\ UNCHANGED <<swapchain, swapchain_framebuffers, dynamic_state,
                   need_to_recreate_swapchain, previous_frame_end, control_flow,
                   pc, panic, image_index, suboptimal, command_buffer, future,
                   inner_size, submitted, signalled, iter>>
    /\ UNCHANGED <<capabilities, selected, healed>>

Next ==
    \/ CloseRequested
    \/ \E size \in WindowSizes : Resized(size)
    \/ RedrawEventsCleared
    \/ \E result \in {"Ok", "UnsupportedDimensions", "Error", "DeviceLost"} :
          \E built \in FramebufferResults : RecreateSwapchain(result, built)
    \/ \E result \in {"Ok", "OutOfDate", "Error", "DeviceLost"} :
          \E index \in {NoImage} \cup (0..(MaxImageCount - 1)) :
              \E is_suboptimal \in BOOLEAN :
                  AcquireNextImage(result, index, is_suboptimal)
    \/ \E result \in RecordResults : Record(result)
    \/ \E execute_ok \in BOOLEAN : TakeAndCompose(execute_ok)
    \/ \E result \in {"Ok", "OutOfDate", "Error", "DeviceLost"} :
          \E queued \in BOOLEAN : FlushAndStore(result, queued)
    \/ GpuComplete

Spec == Init /\ [][Next]_vars

(***************************************************************************)
(* Startup: the surface reports any capabilities a Vulkan implementation   *)
(* may report, either version of create_swapchain (main.rs, app.rs)        *)
(* chooses what it asks for, and the rest of main or of App::new builds    *)
(* on the swapchain.  A panic ends the program before the loop is entered. *)
(***************************************************************************)
SelInit ==
    /\ capabilities \in ValidCapabilities
    /\ selected = NotSelected
    /\ healed = FALSE
    /\ swapchain = NewSwapchain(0, 0, <<WIDTH, HEIGHT>>)
    /\ swapchain_framebuffers = <<>>
    /\ dynamic_state = <<0, 0>>
    /\ need_to_recreate_swapchain = FALSE
    /\ previous_frame_end = None
    /\ control_flow = "Poll"
    /\ pc = "setup"
    /\ panic = "none"
    /\ image_index = NoImage
    /\ suboptimal = FALSE
    /\ command_buffer = NoCommandBuffer
    /\ future = NoFuture
    /\ inner_size = <<WIDTH, HEIGHT>>
    /\ gpu_pending = {}
    /\ submitted = 0
    /\ signalled = {}
    /\ iter = [token0 |-> None, swapchain0 |-> swapchain,
               framebuffers0 |-> <<>>, stale0 |-> FALSE,
               size0 |-> <<WIDTH, HEIGHT>>, submitted0 |-> 0,
               recreate |-> "none", acquire |-> "none", suboptimal |-> FALSE,
               flush |-> "none"]

\* The selection when surface.capabilities(..) answers Err: the expect
\* panics before anything is selected.
NoCapabilities(by, queues) ==
    [NotSelected EXCEPT !.by = by, !.queues = queues,
                        !.panic = "Failed to get capabilities from device"]

\* The end of create_swapchain: the panic of the selection, or
\* Swapchain::new(..).expect("Failed to create swapchain!") with the chosen
\* arguments.  created is what Swapchain::new answers; the swapchain it
\* returns has count images, at least as many as were asked for.
SwapchainCreated(choice, created, count) ==
    /\ pc = "setup"
    /\ selected = NotSelected
    /\ created \in {"Ok", "Err"}
    /\ count \in choice.image_count..(choice.image_count + 1)
    /\ (choice.panic # "none" \/ created = "Err") => count = choice.image_count
    /\ choice.panic # "none" => created = "Ok"
    /\ IF choice.panic # "none"
       THEN /\ selected' = choice
            /\ pc' = "panicked"
            /\ panic' = choice.panic
            /\ UNCHANGED swapchain
       ELSE IF created = "Err"
       THEN /\ selected' = [choice EXCEPT !.panic = "Failed to create swapchain!"]
            /\ pc' = "panicked"
            /\ panic' = "Failed to create swapchain!"
            /\ UNCHANGED swapchain
       ELSE /\ selected' = choice
            /\ swapchain' = NewSwapchain(1, count, inner_size)
            /\ UNCHANGED <<pc, panic>>
    /\ UNCHANGED <<swapchain_framebuffers, dynamic_state,
                   need_to_recreate_swapchain, previous_frame_end, control_flow,
                   image_index, suboptimal, command_buffer, future, inner_size,
                   gpu_pending, submitted, signalled, iter, capabilities, healed>>

\* main.rs has one queue, used for drawing and for presenting.
create_swapchain ==
    \E queue \in QueueFamilies, capabilities_ok \in BOOLEAN,
       created \in {"Ok", "Err"}, extra \in 0..1 :
        LET choice == IF capabilities_ok
                        THEN Selection(capabilities, queue)
                        ELSE NoCapabilities("main", <<queue>>)
        IN  SwapchainCreated(choice, created, choice.image_count + extra)

App_create_swapchain ==
    \E graphics_queue, present_queue \in QueueFamilies, capabilities_ok \in BOOLEAN,
       created \in {"Ok", "Err"}, extra \in 0..1 :
        LET choice == IF capabilities_ok
                        THEN AppSelection(capabilities, graphics_queue, present_queue)
                        ELSE NoCapabilities("app", <<graphics_queue, present_queue>>)
        IN  SwapchainCreated(choice, created, choice.image_count + extra)

\* What main can meet between create_swapchain and the wait for the compute
\* test run (main.rs:78-171): every call succeeds, or an expect or unwrap
\* panics: the vertex buffer (105), the shader modules (115, 124), or the
\* compute test run (134-171).
ComputeResults == {"Ok", "vertex_buffer", "shader", "compute"}

\* main after create_swapchain, up to the submission of the compute test
\* run (main.rs:78-171): the buffers and shaders, then
\* command_buffer.execute(queue) and then_signal_fence_and_flush(), which
\* hands the dispatch and the fence signal to the queue.  A flush that
\* fails may or may not have queued the dispatch (queued); the failures
\* before it queue nothing.
StartupCompute(result, queued) ==
    /\ pc = "setup"
    /\ selected.by = "main"
    /\ result \in ComputeResults
    /\ result = "Ok" => queued
    /\ result \in {"vertex_buffer", "shader"} => ~queued
    /\ submitted' = IF queued THEN submitted + 1 ELSE submitted
    /\ gpu_pending' =
          IF queued
            THEN gpu_pending \cup
                    {[id |-> submitted + 1, gen |-> 0, image_index |-> NoImage,
                      chain |-> QueuedChain(<<"execute">>), done |-> 0]}
            ELSE gpu_pending
    /\ IF result = "Ok"
       THEN pc' = "compute_wait" /\ UNCHANGED panic
       ELSE Panic(result)
    /\ UNCHANGED <<swapchain, swapchain_framebuffers, dynamic_state,
                   need_to_recreate_swapchain, previous_frame_end, control_flow,
                   image_index, suboptimal, command_buffer, future, inner_size,
                   signalled, iter, capabilities, selected, healed>>

\* What the rest of main's startup can meet (main.rs:171-212): every call
\* succeeds, or one panics: the wait for the compute test run (171), the
\* read and the comparison of its results (174, 176), the render pass
\* (488), the graphics pipeline (194, 196), or a framebuffer (507, 508).
StartupResults ==
    {"Ok", "compute", "render_pass", "pipeline", "framebuffer_add",
     "framebuffer_build"}

\* main from the wait for the compute test run to the event loop
\* (main.rs:171-212).  wait(None) blocks until the GPU has finished the
\* dispatch, so everything after it runs with nothing pending; the wait can
\* also answer an error at any time, which the unwrap turns into a panic
\* with the dispatch still queued.  Then the results are read, and the
\* render pass, the pipeline, the framebuffer set and the viewport, the
\* flag and the first token are made.  create_framebuffers writes the
\* viewport before it builds the first framebuffer.
Startup(result) ==
    /\ pc = "compute_wait"
    /\ selected.by = "main"
    /\ result \in StartupResults
    /\ result # "compute" => gpu_pending = {}
    /\ LET images == SwapchainImages(swapchain.gen, swapchain.num_images,
                                     swapchain.dimensions)
       IN  IF result = "Ok"
           THEN /\ swapchain_framebuffers' = FramebufferSet(images)
                /\ dynamic_state' = ViewportOf(images)
                /\ previous_frame_end' = Now
                /\ pc' = "idle"
                /\ iter' = [iter EXCEPT !.token0 = Now,
                                        !.swapchain0 = swapchain,
                                        !.framebuffers0 = FramebufferSet(images),
                                        !.submitted0 = submitted]
                /\ UNCHANGED panic
           ELSE /\ Panic(result)
                /\ dynamic_state' =
                      IF result \in {"framebuffer_add", "framebuffer_build"}
                        THEN ViewportOf(images) ELSE dynamic_state
                /\ UNCHANGED <<swapchain_framebuffers, previous_frame_end, iter>>
    /\ UNCHANGED <<swapchain, need_to_recreate_swapchain, control_flow,
                   image_index, suboptimal, command_buffer, future, inner_size,
                   gpu_pending, submitted, signalled, capabilities, selected,
                   healed>>

\* What the rest of App::new can meet (app.rs:81-84): every call succeeds,
\* or an expect panics: the render pass (291), the shader modules (313,
\* 316), the pipeline (338, 340), a framebuffer (360, 361) or a command
\* buffer (377-386).
AppNewResults ==
    {"Ok", "render_pass", "shader", "pipeline", "framebuffer_add",
     "framebuffer_build", "builder", "begin_render_pass", "draw",
     "end_render_pass", "build"}

\* App::new after create_swapchain (app.rs:81-99): the render pass and the
\* pipeline, one framebuffer per swapchain image and one command buffer per
\* framebuffer, drawn with DynamicState::none().  The framebuffers built
\* before a command buffer fails are locals of App::new and are dropped
\* with the panic.
App_new(result) ==
    /\ pc = "setup"
    /\ selected.by = "app"
    /\ result \in AppNewResults
    /\ LET images == SwapchainImages(swapchain.gen, swapchain.num_images,
                                     swapchain.dimensions)
       IN  IF result = "Ok"
           THEN /\ swapchain_framebuffers' = FramebufferSet(images)
                /\ command_buffer' =
                      [i \in 1..Len(images) |->
                          [framebuffer |-> FramebufferSet(images)[i],
                           viewport |-> <<0, 0>>]]
                /\ pc' = "app_created"
                /\ UNCHANGED panic
           ELSE /\ Panic(result)
                /\ UNCHANGED <<swapchain_framebuffers, command_buffer>>
    /\ UNCHANGED <<swapchain, dynamic_state, need_to_recreate_swapchain,
                   previous_frame_end, control_flow, image_index, suboptimal,
                   future, inner_size, gpu_pending, submitted, signalled, iter,
                   capabilities, selected, healed>>

SelNext ==
    \/ create_swapchain
    \/ App_create_swapchain
    \/ \E result \in ComputeResults, queued \in BOOLEAN :
          StartupCompute(result, queued)
    \/ GpuComplete
    \/ \E result \in StartupResults : Startup(result)
    \/ \E result \in AppNewResults : App_new(result)

SelSpec == SelInit /\ [][SelNext]_vars

(***************************************************************************)
(* The loop with the GPU seen one operation at a time: every backend call  *)
(* succeeds, the window may be resized, and the GPU works through the      *)
(* chain of each submission in the order it was composed.                  *)
(***************************************************************************)
ChainNext ==
    \/ \E size \in {<<WIDTH, HEIGHT>>, <<640, 480>>} : Resized(size)
    \/ RedrawEventsCleared
    \/ RecreateSwapchain("Ok", "Ok")
    \/ \E index \in 0..(MaxImageCount - 1) :
          \E is_suboptimal \in BOOLEAN : AcquireNextImage("Ok", index, is_suboptimal)
    \/ Record("Ok")
    \/ TakeAndCompose(TRUE)
    \/ FlushAndStore("Ok", TRUE)
    \/ GpuStep

ChainSpec == Init /\ [][ChainNext]_vars

(***************************************************************************)
(* The loop on a surface that settles.  Up to some moment the window       *)
(* system and the backend behave as in Spec; from then on (healed) the     *)
(* window is left alone, the backend accepts the window's size and reports *)
(* neither errors nor a suboptimal image.  The event loop runs on one      *)
(* thread and runs each handler to its end, winit delivers                 *)
(* RedrawEventsCleared on every turn of the loop (ControlFlow::Poll), and  *)
(* the GPU finishes the work it was given: these are the fairness          *)
(* conditions.                                                             *)
(***************************************************************************)
Heal ==
    /\ ~healed
    /\ pc # "panicked"
    /\ control_flow # "Exit"
    /\ InRange(inner_size)
    /\ submitted + 2 <= ComputeSubmissions + MaxFrames
    /\ need_to_recreate_swapchain => swapchain.gen < MaxGen
    /\ healed' = TRUE
    /\ UNCHANGED <<swapchain, swapchain_framebuffers, dynamic_state,
                   need_to_recreate_swapchain, previous_frame_end, control_flow,
                   pc, panic, image_index, suboptimal, command_buffer, future,
                   inner_size, gpu_pending, submitted, signalled, iter,
                   capabilities, selected>>

\* Before it settles the surface behaves as in Spec; the exploration stops
\* where the frame bound leaves no room for the surface to settle.
Unsettled == ~healed /\ submitted + 2 <= ComputeSubmissions + MaxFrames /\ Next

\* The redraw handler when every backend call succeeds.
SettledRedraw ==
    /\ healed
    /\ \/ RedrawEventsCleared
       \/ RecreateSwapchain("Ok", "Ok")
       \/ \E index \in 0..(MaxImageCount - 1) : AcquireNextImage("Ok", index, FALSE)
       \/ Record("Ok")
       \/ TakeAndCompose(TRUE)
       \/ FlushAndStore("Ok", TRUE)

SettledGpu == healed /\ GpuComplete

LiveNext ==
    \/ Unsettled
    \/ Heal
    \/ SettledRedraw
    \/ SettledGpu

LiveSpec ==
    /\ Init
    /\ [][LiveNext]_vars
    /\ WF_vars(SettledRedraw)
    /\ WF_vars(SettledGpu)

(***************************************************************************)
(* Properties of the presentation loop.                                    *)
(***************************************************************************)

\* C1: the token is never taken twice before it is replaced.  Between
\* handlers the token is present; up to the take step it is still the token
\* the iteration started with; while the chain is being flushed the slot is
\* empty and the chain holds the live token that was taken; no unwrap or
\* take ever meets an empty slot.
C1_SingleTokenOwnership ==
    /\ pc = "idle" => previous_frame_end # None
    /\ pc \in {"recreate", "acquire", "record", "take"} =>
          /\ previous_frame_end # None
          /\ previous_frame_end = iter.token0
    /\ pc = "flush" =>
          /\ previous_frame_end = None
          /\ future.previous # None
          /\ future.previous = iter.token0
    /\ panic \notin {"unwrap", "take"}

\* A failed flush took the fence future of an earlier frame and left a new
\* token behind.
C1_Witness ==
    /\ pc = "idle"
    /\ iter.flush = "Error"
    /\ iter.token0.tag = "Frame"
    /\ previous_frame_end = Now

\* C2: an iteration whose acquire answered OutOfDate has returned at once:
\* the flag is set, nothing was recorded, composed or submitted, and the
\* token is the one the iteration started with.
C2_AcquireOutOfDateAborts ==
    iter.acquire = "OutOfDate" =>
        /\ pc = "idle"
        /\ need_to_recreate_swapchain
        /\ previous_frame_end = iter.token0
        /\ previous_frame_end # None
        /\ submitted = iter.submitted0
        /\ iter.flush = "none"
        /\ command_buffer = NoCommandBuffer
        /\ future = NoFuture

\* OutOfDate at acquire while the token is the fence future of a frame.
C2_Witness ==
    /\ iter.acquire = "OutOfDate"
    /\ iter.token0.tag = "Frame"
    /\ pc = "idle"

\* C3: once an acquire has answered OutOfDate, and until a rebuild has
\* succeeded, the handler is never at or past the acquire step: it is
\* between handlers, rebuilding, or dead from a rebuild that failed (in
\* the swapchain or in its framebuffers); the
\* iteration on record acquired and presented nothing.
C3_RebuildBeforeNextAcquire ==
    "AcquireOutOfDate" \in signalled =>
        /\ pc \in {"idle", "recreate", "panicked"}
        /\ pc = "panicked" =>
              panic \in {"recreate", "framebuffer_add", "framebuffer_build"}
        /\ iter.acquire \in {"none", "OutOfDate"}
        /\ iter.flush = "none"

\* The iteration after an OutOfDate acquire is at its rebuild step.
C3_Witness ==
    /\ "AcquireOutOfDate" \in signalled
    /\ pc = "recreate"
    /\ iter.token0.tag = "Frame"

\* C4: a suboptimal acquire sets the flag and the iteration goes on with
\* the swapchain it acquired from: no rebuild happens before the iteration
\* ends, the chain presents the acquired index on that swapchain, the
\* iteration reaches its flush, and no acquire follows before a rebuild.
C4_SuboptimalPresentsThenRebuilds ==
    /\ "Suboptimal" \in signalled =>
          /\ need_to_recreate_swapchain
          /\ pc # "acquire"
    /\ (iter.acquire = "Ok" /\ iter.suboptimal) =>
          /\ "Suboptimal" \in signalled
          /\ iter.recreate # "Ok" => swapchain = iter.swapchain0
          /\ iter.recreate = "Ok" => swapchain.gen = iter.swapchain0.gen + 1
          /\ pc \in {"record", "take", "flush", "idle", "panicked"}
          /\ pc = "panicked" => panic \in (RecordResults \cup {"execute"}) \ {"Ok"}
          /\ pc = "flush" =>
                /\ future.swapchain = swapchain.gen
                /\ future.image_index = image_index
          /\ pc = "idle" => iter.flush # "none"
          /\ (pc = "idle" /\ iter.flush = "Ok") =>
                /\ submitted = iter.submitted0 + 1
                /\ previous_frame_end = FrameFuture(submitted)

\* A suboptimal image was presented and the flag is set for the next tick.
C4_Witness ==
    /\ pc = "idle"
    /\ iter.acquire = "Ok"
    /\ iter.suboptimal
    /\ iter.flush = "Ok"
    /\ need_to_recreate_swapchain

\* C5: an iteration whose rebuild answered UnsupportedDimensions has
\* returned without a panic: the swapchain, the framebuffer set and the
\* token are the ones it started with, no image was acquired, nothing was
\* submitted, and the flag is still set.
C5_DegenerateSurfaceSkips ==
    iter.recreate = "UnsupportedDimensions" =>
        /\ pc = "idle"
        /\ panic = "none"
        /\ need_to_recreate_swapchain
        /\ swapchain = iter.swapchain0
        /\ swapchain_framebuffers = iter.framebuffers0
        /\ previous_frame_end = iter.token0
        /\ iter.acquire = "none"
        /\ iter.flush = "none"
        /\ submitted = iter.submitted0

\* A redraw of a window of size (0,0) was skipped while a frame's token
\* was outstanding.
C5_Witness ==
    /\ iter.recreate = "UnsupportedDimensions"
    /\ iter.size0 = <<0, 0>>
    /\ iter.token0.tag = "Frame"
    /\ pc = "idle"

\* C6: after a flush that answered OutOfDate the handler has returned with
\* the flag set and the token reset to sync::now, which is complete from
\* the start; until a rebuild has succeeded the handler is never at or past
\* the acquire step, so the next iteration starts with the rebuild.
C6_FlushOutOfDateResets ==
    /\ (pc = "idle" /\ iter.flush = "OutOfDate") =>
          /\ need_to_recreate_swapchain
          /\ previous_frame_end = Now
          /\ Completed(previous_frame_end)
    /\ "FlushOutOfDate" \in signalled =>
          /\ need_to_recreate_swapchain
          /\ pc \in {"idle", "recreate", "panicked"}
          /\ pc = "panicked" =>
                panic \in {"recreate", "framebuffer_add", "framebuffer_build"}
          /\ pc = "recreate" => iter.token0 = Now

\* The iteration after an OutOfDate flush is at its rebuild step, holding
\* the placeholder while the GPU still works on the queued command buffer.
C6_Witness ==
    /\ "FlushOutOfDate" \in signalled
    /\ pc = "recreate"
    /\ previous_frame_end = Now
    /\ gpu_pending # {}

\* C7: a flush error other than OutOfDate never ends the program; the
\* handler has returned with the token reset to sync::now and with the
\* swapchain and framebuffer set the iteration submitted against (its
\* initial ones, or the ones its own rebuild step made).
C7_FlushErrorDegrades ==
    /\ panic # "flush"
    /\ iter.flush \in {"Error", "DeviceLost"} =>
          /\ pc = "idle"
          /\ previous_frame_end = Now
          /\ iter.recreate # "Ok" =>
                /\ swapchain = iter.swapchain0
                /\ swapchain_framebuffers = iter.framebuffers0
          /\ iter.recreate = "Ok" =>
                /\ swapchain.gen = iter.swapchain0.gen + 1
                /\ swapchain_framebuffers =
                      FramebufferSet(SwapchainImages(swapchain.gen,
                          swapchain.num_images, swapchain.dimensions))

\* A frame is presented on the first swapchain by an iteration that
\* started from the placeholder after an earlier submission: only a flush
\* error other than OutOfDate leaves the loop there.
C7_Witness ==
    /\ pc = "idle"
    /\ iter.flush = "Ok"
    /\ iter.token0 = Now
    /\ iter.submitted0 >= ComputeSubmissions + 1
    /\ iter.recreate = "none"
    /\ swapchain.gen = 1

\* C8: a step that delivers a Resized event sets the flag and changes
\* neither the swapchain, the framebuffer set, the viewport nor the token,
\* and submits nothing; the swapchain and the framebuffer set change only
\* in the rebuild step of a redraw iteration.
C8_ResizedOnlyMarksStale ==
    [][ /\ (inner_size' # inner_size \/ "Resized" \in (signalled' \ signalled)) =>
              /\ need_to_recreate_swapchain'
              /\ UNCHANGED <<swapchain, swapchain_framebuffers, dynamic_state,
                             previous_frame_end, submitted, gpu_pending, pc,
                             control_flow>>
        /\ (swapchain' # swapchain
              \/ swapchain_framebuffers' # swapchain_framebuffers) =>
              pc = "recreate"
      ]_vars

\* The window has a new in-range size and the swapchain still has the old
\* extent: the resize was seen and no redraw has run since.
C8_Witness ==
    /\ pc = "idle"
    /\ "Resized" \in signalled
    /\ need_to_recreate_swapchain
    /\ InRange(inner_size)
    /\ swapchain.dimensions # inner_size

\* C9: an iteration that started stale with a window of an in-range size,
\* once past its rebuild step and unless the rebuild died (of a fatal
\* error or while building the framebuffers), has rebuilt the swapchain to exactly that size: it is the next
\* generation, the acquire and the present use it, and the iteration was
\* not skipped before its acquire.
C9_ResizeRoundTrip ==
    (iter.stale0 /\ InRange(iter.size0) /\ pc # "recreate"
        /\ iter.recreate \notin {"Error", "DeviceLost", "framebuffer_add",
                                  "framebuffer_build"}) =>
        /\ iter.recreate = "Ok"
        /\ swapchain.dimensions = iter.size0
        /\ swapchain.gen = iter.swapchain0.gen + 1
        /\ pc = "acquire" \/ iter.acquire # "none"
        /\ pc = "flush" => future.swapchain = swapchain.gen

\* A resize from 800x600 to 640x480 followed by a redraw that presented.
C9_Witness ==
    /\ pc = "idle"
    /\ iter.stale0
    /\ iter.swapchain0.dimensions = <<WIDTH, HEIGHT>>
    /\ iter.size0 = <<640, 480>>
    /\ swapchain.dimensions = <<640, 480>>
    /\ iter.flush = "Ok"

\* C10: when the loop has been told to exit, the outstanding token has been
\* waited for: the GPU work it stands for is complete.
C10_ShutdownWaitsForToken ==
    control_flow = "Exit" => Completed(previous_frame_end)

\* C11: while the program runs (it has not died in a panic) the
\* framebuffer set belongs to the current swapchain: it
\* has one entry per image of that swapchain, in the images' order and of
\* its generation; the acquired index is within the set when the frame is
\* recorded; and the framebuffer a command buffer was recorded against is
\* the current generation's framebuffer of the acquired image.
C11_GenerationConsistency ==
    /\ pc # "panicked" =>
          /\ Len(swapchain_framebuffers) = swapchain.num_images
          /\ \A i \in 1..swapchain.num_images :
                swapchain_framebuffers[i] = [gen |-> swapchain.gen, index |-> i - 1]
    /\ pc = "record" => image_index \in 0..(Len(swapchain_framebuffers) - 1)
    /\ panic # "index"
    /\ pc \in {"take", "flush"} =>
          /\ command_buffer.framebuffer.gen = swapchain.gen
          /\ command_buffer.framebuffer.index = image_index

\* A frame is recorded against the rebuilt set while the GPU still works
\* on a frame of the generation before.
C11_Witness ==
    /\ pc = "take"
    /\ swapchain.gen >= 2
    /\ command_buffer.framebuffer.gen = swapchain.gen
    /\ \E p \in gpu_pending : p.gen < swapchain.gen

\* C15: an iteration that starts with the flag clear and meets no backend
\* error and no suboptimal report presents exactly one frame and ends with
\* the fence of that frame as its token; the flag is still clear unless a
\* resize arrived afterwards; and the image it acquired is not one that a
\* frame still in flight on the same swapchain is using.
C15_SteadyState ==
    /\ (/\ pc = "idle"
        /\ ~iter.stale0
        /\ iter.acquire \notin {"none", "OutOfDate", "Error", "DeviceLost"}
        /\ ~iter.suboptimal
        /\ iter.flush \notin {"OutOfDate", "Error", "DeviceLost"}) =>
          /\ iter.flush = "Ok"
          /\ submitted = iter.submitted0 + 1
          /\ previous_frame_end = FrameFuture(submitted)
          /\ swapchain = iter.swapchain0
          /\ "Resized" \notin signalled => ~need_to_recreate_swapchain
    /\ (pc \in {"record", "take", "flush"} /\ ~iter.stale0) =>
          \A p \in gpu_pending :
              p.gen = swapchain.gen => p.image_index # image_index

\* C15's case: three frames presented on the first swapchain, the last by a
\* steady iteration that ran while an earlier frame was still in flight.
C15_Witness ==
    /\ pc = "idle"
    /\ ~iter.stale0
    /\ iter.acquire = "Ok"
    /\ ~iter.suboptimal
    /\ iter.flush = "Ok"
    /\ submitted = ComputeSubmissions + 3
    /\ swapchain.gen = 1
    /\ ~need_to_recreate_swapchain
    /\ Cardinality(gpu_pending) >= 2

\* C20: no image is acquired while the flag is set: the acquire step is
\* only reached with the flag clear and every staleness signal answered by
\* a rebuild; an iteration that started stale and reached acquire rebuilt
\* successfully first; and an iteration whose rebuild did not succeed never
\* reaches acquire.
C20_NoAcquireWhileStale ==
    /\ pc = "acquire" => (~need_to_recreate_swapchain /\ signalled = {})
    /\ (iter.stale0 /\ iter.acquire # "none") =>
          /\ iter.recreate = "Ok"
          /\ swapchain.gen = iter.swapchain0.gen + 1
    /\ iter.recreate \in {"UnsupportedDimensions", "Error", "DeviceLost",
                        "framebuffer_add", "framebuffer_build"} =>
          /\ iter.acquire = "none"
          /\ pc \in {"idle", "panicked"}

\* C20's case: an iteration that started stale has rebuilt and acquired.
C20_Witness ==
    /\ pc = "record"
    /\ iter.stale0
    /\ iter.recreate = "Ok"
    /\ iter.acquire = "Ok"
    /\ swapchain.gen = iter.swapchain0.gen + 1

\* C16: at most one frame is in flight: there is never more than one
\* submission whose GPU work is incomplete, and a submission is only about
\* to be issued (the flush step) when no earlier one is incomplete.
C16_OneFrameInFlight ==
    /\ Cardinality(gpu_pending) <= 1
    /\ pc = "flush" => gpu_pending = {}

\* C17: a fatal device error (device loss, out of memory) answered by the
\* rebuild, the acquire or the flush of an iteration ends the session: the
\* handler does not return to the loop, so nothing more is acquired,
\* submitted or presented.
C17_FatalErrorEndsSession ==
    (\/ iter.recreate = "DeviceLost"
     \/ iter.acquire = "DeviceLost"
     \/ iter.flush = "DeviceLost") => pc = "panicked"

\* C21: the first redraw iteration after startup rebuilds the swapchain
\* and the framebuffer set before its first acquire, as if a resize had
\* been signalled: no acquire is ever attempted on the swapchain that was
\* built at startup, only on one that a rebuild produced.
C21_FirstIterationRebuilds ==
    pc = "acquire" => (swapchain.gen >= 2 /\ iter.recreate = "Ok")

\* C22: the image index of the present request is the index this
\* iteration's acquire returned, and the swapchain of the present request is
\* the generation it was acquired from; the index only changes when an
\* acquire returns it or when it is dropped, it is never held while the
\* swapchain is rebuilt, and it is gone when the handler returns.
C22_PresentsAcquiredImage ==
    [][/\ pc = "flush" =>
             /\ future.image_index = image_index
             /\ future.swapchain = swapchain.gen
             /\ image_index \in 0..(swapchain.num_images - 1)
       /\ image_index' # image_index =>
             \/ pc = "acquire" /\ iter'.acquire = "Ok" /\ iter.acquire = "none"
             \/ image_index' = NoImage
       /\ swapchain' # swapchain =>
             (image_index = NoImage /\ image_index' = NoImage)
       /\ pc' = "idle" => (image_index' = NoImage /\ future' = NoFuture)
       /\ \A p \in gpu_pending' \ gpu_pending :
             /\ p.image_index = image_index
             /\ p.gen = swapchain.gen
             /\ iter.acquire = "Ok"
             /\ iter.swapchain0.gen = swapchain.gen \/ iter.recreate = "Ok"
      ]_vars

\* C22's case: on a rebuilt swapchain the second image was acquired and is
\* the one about to be presented, while a frame of the old swapchain is
\* still in flight.
C22_Witness ==
    /\ pc = "flush"
    /\ swapchain.gen >= 2
    /\ image_index = 1
    /\ future.image_index = 1
    /\ future.swapchain = swapchain.gen
    /\ \E p \in gpu_pending : p.gen < swapchain.gen

\* C24: a close request is honoured only between redraw iterations: the
\* step that asks the loop to exit starts and ends between handlers, with
\* the token in its slot (not taken), no chain composed and unflushed and
\* no acquired image held, and it submits nothing; and every handler that
\* returns leaves a token in the slot.
C24_CloseAtIterationBoundary ==
    [][/\ control_flow' # control_flow =>
             /\ control_flow' = "Exit"
             /\ pc = "idle" /\ pc' = "idle"
             /\ previous_frame_end # None
             /\ previous_frame_end' = previous_frame_end
             /\ future = NoFuture /\ future' = NoFuture
             /\ image_index = NoImage
             /\ command_buffer = NoCommandBuffer
             /\ gpu_pending' = gpu_pending
             /\ submitted' = submitted
       /\ pc' = "idle" => (previous_frame_end' # None /\ future' = NoFuture)
      ]_vars

\* C24's case: the window is closed after an iteration that presented a
\* frame whose GPU work is still in flight.
C24_Witness ==
    /\ control_flow = "Exit"
    /\ iter.flush = "Ok"
    /\ previous_frame_end = FrameFuture(submitted)
    /\ \E p \in gpu_pending : p.id = submitted

\* C26: the stale flag is cleared only by a successful rebuild of the
\* swapchain and of the framebuffer set: the only step that takes the flag
\* from set to clear is the rebuild step answering Ok, which installs a new
\* swapchain generation and its framebuffers; and as long as a staleness
\* signal has not been answered by such a rebuild the flag stays set.
C26_ClearedOnlyByRebuild ==
    [][/\ (need_to_recreate_swapchain /\ ~need_to_recreate_swapchain') =>
             /\ pc = "recreate"
             /\ iter'.recreate = "Ok"
             /\ swapchain'.gen = swapchain.gen + 1
             /\ Len(swapchain_framebuffers') = swapchain'.num_images
             /\ \A i \in 1..Len(swapchain_framebuffers') :
                   swapchain_framebuffers'[i].gen = swapchain'.gen
       /\ signalled' # {} => need_to_recreate_swapchain'
      ]_vars

\* C26's case: the flag has been set and cleared twice, each time by a
\* rebuild, and the second rebuild has just cleared it.
C26_Witness ==
    /\ pc = "acquire"
    /\ iter.stale0
    /\ iter.recreate = "Ok"
    /\ ~need_to_recreate_swapchain
    /\ swapchain.gen = 3

\* C27: whenever a frame is recorded the viewport of the dynamic state has
\* the dimensions of the current swapchain's images: the viewport always
\* equals those dimensions, the recorded command buffer carries it, and the
\* only step that changes it is a framebuffer-set build (finished or dead
\* in a panic), which follows a rebuilt swapchain and writes the new images'
\* dimensions.
C27_ViewportMatchesSwapchain ==
    [][/\ dynamic_state = <<AsF32(swapchain.dimensions[1]), AsF32(swapchain.dimensions[2])>>
       /\ dynamic_state' = <<AsF32(swapchain'.dimensions[1]), AsF32(swapchain'.dimensions[2])>>
       /\ pc' \in {"take", "flush"} => command_buffer'.viewport = dynamic_state'
       /\ dynamic_state' # dynamic_state =>
             /\ pc = "recreate"
             /\ iter'.recreate \in {"Ok", "framebuffer_add", "framebuffer_build"}
             /\ swapchain'.gen = swapchain.gen + 1
             /\ swapchain'.dimensions = inner_size
      ]_vars

\* C27's case: a frame has been recorded on a swapchain rebuilt at another
\* size than the startup size.
C27_Witness ==
    /\ pc = "take"
    /\ swapchain.gen >= 2
    /\ swapchain.dimensions = <<640, 480>>
    /\ dynamic_state = <<640, 480>>
    /\ command_buffer.viewport = <<640, 480>>

(***************************************************************************)
(* Properties of swapchain creation (specification SelSpec).               *)
(***************************************************************************)

\* C12: once create_swapchain has read the capabilities of a surface that
\* offers a format,
\* the image count it asked for is min_image_count + 1, lowered to
\* max_image_count when there is a maximum and it is smaller, and
\* min_image_count + 1 when there is no maximum.
C12_ImageCountMinPlusOneClamped ==
    LET min == capabilities.min_image_count
        max == capabilities.max_image_count
        required == IF max.some /\ max.value < min + 1 THEN max.value ELSE min + 1
    IN  (/\ selected.by # "none"
         /\ Len(capabilities.supported_formats) > 0
         /\ selected.panic # "Failed to get capabilities from device") =>
            /\ selected.panic \in {"none", "Failed to create swapchain!"}
            /\ selected.image_count = required

\* C13: format selection returns the pair (B8G8R8A8Srgb, SrgbNonLinear)
\* whenever it is among the supported formats, at whatever position;
\* otherwise it returns the first supported entry; and when the list is not
\* empty the result is one of its entries.
C13_FormatSelection ==
    LET formats == capabilities.supported_formats
        offered == {formats[i] : i \in 1..Len(formats)}
    IN  (/\ selected.by # "none"
         /\ selected.panic # "Failed to get capabilities from device") =>
            /\ PreferredFormat \in offered =>
                  selected.surface_format = PreferredFormat
            /\ (PreferredFormat \notin offered /\ Len(formats) > 0) =>
                  selected.surface_format = formats[1]
            /\ Len(formats) > 0 => selected.surface_format \in offered

\* C13's case: the preferred pair is offered last, behind two other entries,
\* and is the one selected.
C13_Witness ==
    /\ selected.by = "main"
    /\ Len(capabilities.supported_formats) = 3
    /\ capabilities.supported_formats[1] # PreferredFormat
    /\ capabilities.supported_formats[2] # PreferredFormat
    /\ capabilities.supported_formats[3] = PreferredFormat
    /\ selected.surface_format = PreferredFormat

\* C14: present-mode selection returns Mailbox when it is supported,
\* otherwise Immediate when it is supported, otherwise Fifo, for every
\* combination of supported modes.
C14_PresentModeSelection ==
    LET modes == capabilities.present_modes
    IN  (/\ selected.by # "none"
         /\ Len(capabilities.supported_formats) > 0
         /\ selected.panic # "Failed to get capabilities from device") =>
            /\ modes.mailbox => selected.present_mode = "Mailbox"
            /\ (~modes.mailbox /\ modes.immediate) =>
                  selected.present_mode = "Immediate"
            /\ (~modes.mailbox /\ ~modes.immediate) =>
                  selected.present_mode = "Fifo"

\* C14's case: Immediate and Fifo are supported, Mailbox is not, and
\* Immediate is selected.
C14_Witness ==
    /\ selected.by = "main"
    /\ ~capabilities.present_modes.mailbox
    /\ capabilities.present_modes.immediate
    /\ capabilities.present_modes.fifo
    /\ selected.present_mode = "Immediate"

(***************************************************************************)
(* Properties of the loop on a surface that settles (LiveSpec).            *)
(***************************************************************************)

\* C18: the loop heals itself: once the window is left alone and the
\* backend accepts its size and reports no more errors, whatever transient
\* condition came before (resize, OutOfDate at acquire or flush,
\* suboptimal, unsupported dimensions), a redraw iteration eventually
\* presents a frame and leaves the stale flag clear.
C18_SelfHeal ==
    healed ~> (/\ pc = "idle"
               /\ iter.flush = "Ok"
               /\ ~need_to_recreate_swapchain
               /\ signalled = {})

\* C18's case: the surface settled while the swapchain was stale, and the
\* iteration that followed has rebuilt it and is about to present.
C18_Witness ==
    /\ healed
    /\ pc = "flush"
    /\ iter.stale0
    /\ iter.recreate = "Ok"
    /\ iter.token0 = Now
    /\ submitted >= ComputeSubmissions + 1

(***************************************************************************)
(* Properties of the submitted chain (specification ChainSpec).            *)
(***************************************************************************)

\* C23: within each submitted frame the chain is ordered: the join of the
\* previous token with the acquire comes first, then the execution of the
\* recorded commands, then the present request for the acquired image, then
\* the new completion signal; so while a frame is in flight its image has
\* been handed to the presentation engine only if its commands have
\* executed, and its commands have executed only after the join.
C23_ChainOrdered ==
    \A p \in gpu_pending :
        LET completed == {p.chain[i] : i \in 1..p.done}
        IN  /\ Len(p.chain) = 4
            /\ p.chain[1] = "join"
            /\ p.chain[4] = "signal_fence"
            /\ "present" \in completed => "execute" \in completed
            /\ "execute" \in completed => "join" \in completed
            /\ "signal_fence" \notin completed

\* C23's case: a frame in flight whose image has been handed to the
\* presentation engine, its completion not yet signalled, while the next
\* frame is already queued behind it.
C23_Witness ==
    \E p, q \in gpu_pending :
        /\ p.id < q.id
        /\ p.done = 3
        /\ p.chain[3] = "present"
        /\ q.done = 0

\* C25: the sharing mode asked for is derived from the queues: exclusive
\* access when the graphics queue and the presentation queue are of the
\* same queue family, concurrent access across both families when they
\* differ.
C25_SharingModeFromQueues ==
    (selected.by # "none" /\ selected.panic = "none") =>
        LET graphics == selected.queues[1]
            present == selected.queues[Len(selected.queues)]
        IN  /\ graphics = present => selected.sharing_mode.mode = "Exclusive"
            /\ graphics # present =>
                  /\ selected.sharing_mode.mode = "Concurrent"
                  /\ {selected.sharing_mode.families[i] :
                        i \in 1..Len(selected.sharing_mode.families)}
                       = {graphics, present}
====
